---- MODULE Spec2Model ----
(***************************************************************************)
(* safe-try: Try.catch, the AsyncOperation handle (withTimeout, withRetry, *)
(* withBackoff, then, run, execute) and Try.sleep, modelled as a state     *)
(* machine over the JavaScript event loop: one step per synchronous        *)
(* stretch of code between two awaits, promise reactions as microtask      *)
(* steps, timers as macrotask steps.                                       *)
(*                                                                         *)
(* One Try.catch call, the handles chained from what it returns, and one   *)
(* consumption (then / await) of the last handle are modelled.             *)
(***************************************************************************)
EXTENDS Integers, Sequences, FiniteSets, TLC

VARIABLES
    input,      \* the argument given to Try.catch
    returned,   \* what Try.catch returned (an immediate Result or a handle)
    fnCalls,    \* how many times the supplied function has been invoked
    promises,   \* the wrapped computations, by id: state and settled value
    operation,  \* AsyncOperation.operation: a promise (by id) or the function
    handle,     \* this.config of the newest handle (the one consumed)
    recvIntact, \* the receivers of the chaining calls kept their this.config
    given,      \* per option, the value the last chaining call passed for it
    overrode,   \* some chaining call replaced a value an earlier call gave
    pc,         \* the consumption: idle, await, sleep, done, rejected
    attempt,    \* execute(): the loop variable
    error,      \* execute(): the local `error`
    race,       \* run(): the Promise.race of the current attempt
    timers,     \* every timer armed by setTimeout, in order
    delay,      \* the delay passed to the last Try.sleep
    sleeps,     \* number of Try.sleep calls made by execute()
    result      \* the Result the handle resolved to (pc = "done")

vars ==
    <<input, returned, fnCalls, promises, operation, handle, recvIntact,
      given, overrode, pc, attempt, error, race, timers, delay, sleeps, result>>

chainVars == <<handle, recvIntact, given, overrode>>

execVars == <<pc, attempt, error, race, timers, delay, sleeps, result>>

----------------------------------------------------------------------------
(* Bounds of the model *)

\* largest maxRetries passed to withRetry
MaxRetries == 3

----------------------------------------------------------------------------
(* JavaScript values.  Every value is a record of one shape, so any two    *)
(* values can be compared: type is the value's kind, num its number (or    *)
(* the promise id) and str its text (an Error's message).                  *)

JS(t, n, s) == [type |-> t, num |-> n, str |-> s]

Null == JS("null", 0, "")

Undefined == JS("undefined", 0, "")

Num(n) == JS("number", n, "")

Str(s) == JS("string", 0, s)

Bool(b) == JS("boolean", IF b THEN 1 ELSE 0, "")

Obj(s) == JS("object", 0, s)

Err(msg) == JS("Error", 0, msg)

PromiseRef(id) == JS("promise", id, "")

Func == JS("function", 0, "fn")

\* ToBoolean: the falsy values are null, undefined, 0, "" and false
Truthy(v) ==
    CASE v.type = "null" -> FALSE
      [] v.type = "undefined" -> FALSE
      [] v.type = "number" -> v.num # 0
      [] v.type = "string" -> v.str # ""
      [] v.type = "boolean" -> v.num # 0
      [] OTHER -> TRUE

\* a || b
Or(a, b) == IF Truthy(a) THEN a ELSE b

\* typeof v
TypeOf(v) ==
    CASE v.type \in {"null", "object", "Error", "promise"} -> "object"
      [] OTHER -> v.type

\* v && typeof v === 'object' && 'then' in v
IsThenable(v) == Truthy(v) /\ TypeOf(v) = "object" /\ v.type = "promise"

\* Result<T, E>
Result(d, e) == [data |-> d, error |-> e]

NoResult == [data |-> JS("none", 0, ""), error |-> JS("none", 0, "")]

----------------------------------------------------------------------------
(* Inputs drawn by the environment *)

\* timeouts passed to withTimeout
TimeoutValues == {0, 50}

\* custom timeout errors passed to withTimeout (Undefined: argument omitted)
TimeoutErrors == {Undefined, Err("Too slow!"), Str("")}

\* maxAttempts passed to withRetry
RetryValues == -1 .. MaxRetries

\* options passed to withBackoff (Undefined: key absent)
BackoffOptions ==
    [baseDelayMs : {Num(1), Num(20000)},
     exponential : {Undefined, Bool(TRUE)},
     maxDelayMs : {Undefined, Num(0), Num(3)},
     jitter : {Undefined, Bool(TRUE)}]

\* values Math.random() * 1000 takes, of [0, 1000)
JitterSamples == {0, 999}

\* values a computation resolves with
ResolveValues == {Null, Str("Hello World")}

\* values a computation rejects with
RejectValues == {Null, Err("Testing error")}

\* what the function given to Try.catch does when invoked
FnBehaviours ==
    [does : {"throw"}, val : {Null, Err("Unexpected token")}]
        \cup [does : {"return"}, val : {Null, Obj("{name: 'A'}")}]
        \cup [does : {"returnPromise"}, val : {Undefined}]

NoBehaviour == [does |-> "none", val |-> Undefined]

\* the arguments given to Try.catch
Inputs ==
    [value : {PromiseRef(1)}, fn : {NoBehaviour}]
        \cup [value : {Func}, fn : FnBehaviours]
        \cup [value : {Obj("{say: 'Hello World'}"), Null}, fn : {NoBehaviour}]

NoInput == [value |-> JS("none", 0, ""), fn |-> NoBehaviour]

----------------------------------------------------------------------------
(* AsyncConfig and the chaining calls *)

\* config = {} : every key absent
EmptyConfig ==
    [timeoutMs |-> Undefined, timeoutError |-> Undefined,
     maxRetries |-> Undefined, baseDelayMs |-> Undefined,
     exponential |-> Undefined, maxDelayMs |-> Undefined,
     jitter |-> Undefined]

\* variant of WithTimeout: an omitted error keeps the error set before
WithTimeoutKeepsError(config, ms, err) ==
    [config EXCEPT !.timeoutMs = Num(ms),
                   !.timeoutError = IF err = Undefined THEN @ ELSE err]

\* withTimeout(ms, error): { ...this.config, timeoutMs, timeoutError }
WithTimeout(config, ms, err) ==
    [config EXCEPT !.timeoutMs = Num(ms), !.timeoutError = err]

\* variant of WithRetry: the spread comes last and an earlier value wins
WithRetryKeepsEarlier(config, n) ==
    IF config.maxRetries = Undefined
    THEN [config EXCEPT !.maxRetries = Num(n)]
    ELSE config

\* withRetry(maxAttempts): { ...this.config, maxRetries }
WithRetry(config, n) ==
    [config EXCEPT !.maxRetries = Num(n)]

\* withBackoff(options): { ...this.config, baseDelayMs, exponential,
\* maxDelayMs, jitter }, all four keys written from options
WithBackoff(config, options) ==
    [config EXCEPT !.baseDelayMs = options.baseDelayMs,
                   !.exponential = options.exponential,
                   !.maxDelayMs = options.maxDelayMs,
                   !.jitter = options.jitter]

\* variant of Receiver: the call assigns into this.config in place
ReceiverAssigned(config) == [config EXCEPT !.maxRetries = Num(0)]

\* this.config of the receiver after a chaining call: the spread copies it
Receiver(config) == config

\* a later chaining call gave a value for an option that an earlier call
\* had given another value for
Replaces(before, after) ==
    \E key \in DOMAIN before :
        before[key] # Undefined /\ after[key] # before[key]

----------------------------------------------------------------------------
(* Try.catch *)

\* how the Try.catch call ended: it returned a handle around `operation`
\* with `config`, it returned a Result, or an exception left it
Handle(op, invoked) ==
    [kind |-> "handle", operation |-> op, config |-> EmptyConfig,
     result |-> NoResult, invoked |-> invoked]

Immediate(r, invoked) ==
    [kind |-> "result", operation |-> Undefined, config |-> EmptyConfig,
     result |-> r, invoked |-> invoked]

Thrown(e, invoked) ==
    [kind |-> "throw", operation |-> Undefined, config |-> EmptyConfig,
     result |-> Result(Null, e), invoked |-> invoked]

NotCalled ==
    [kind |-> "none", operation |-> Undefined, config |-> EmptyConfig,
     result |-> NoResult, invoked |-> 0]

\* the value fn() evaluates to (the promise it returns is promise 1)
FnReturn(inp) ==
    IF inp.fn.does = "returnPromise" THEN PromiseRef(1) ELSE inp.fn.val

\* mutant: the handle wraps fn itself, so that run() invokes it again
WrapFunction(inp, func) == Handle(inp.value, 1)

\* new AsyncOperation(func): the handle wraps the value fn() returned
WrapReturned(inp, func) == Handle(func, 1)

\* mutant: no try / catch around the body of Try.catch
CatchNoTry(inp) ==
    IF IsThenable(inp.value)
    THEN Handle(inp.value, 0)
    ELSE IF TypeOf(inp.value) = "function"
    THEN IF inp.fn.does = "throw"
         THEN Thrown(inp.fn.val, 1)
         ELSE IF IsThenable(FnReturn(inp))
              THEN Handle(FnReturn(inp), 1)
              ELSE Immediate(Result(FnReturn(inp), Null), 1)
    ELSE Thrown(Err("Invalid input: expected Promise or function"), 0)

\* Try.catch(fn): the try block and its catch
Catch(inp) ==
    IF IsThenable(inp.value)
    THEN Handle(inp.value, 0)
    ELSE IF TypeOf(inp.value) = "function"
    THEN IF inp.fn.does = "throw"
         THEN Immediate(Result(Null, inp.fn.val), 1)
         ELSE IF IsThenable(FnReturn(inp))
              THEN WrapReturned(inp, FnReturn(inp))
              ELSE Immediate(Result(FnReturn(inp), Null), 1)
    ELSE Immediate(
             Result(Null, Err("Invalid input: expected Promise or function")),
             0)

----------------------------------------------------------------------------
(* AsyncOperation.run and AsyncOperation.execute: the pure parts *)

Pending == [state |-> "pending", value |-> Undefined]

Settled(st, v) == [state |-> st, value |-> v]

\* this.config.timeoutError || new Error(`Operation timed out after ${ms}ms`)
TimeoutError(config) ==
    Or(config.timeoutError,
       Err("Operation timed out after " \o ToString(config.timeoutMs.num)
           \o "ms"))

\* how run() ends: it returns a Result, or (throws) its promise rejects
Returns(r) == [throws |-> FALSE, result |-> r]

Throws(e) == [throws |-> TRUE, result |-> Result(Null, e)]

\* mutant: no catch in run(), a rejection leaves it
RunResultNoCatch(outcome) ==
    IF outcome.state = "fulfilled"
    THEN Returns(Result(outcome.value, Null))
    ELSE Throws(outcome.value)

\* const result = await operationPromise; return {data: result, error: null}
\* catch (e) { return {data: null, error: e} }
RunResult(outcome) ==
    IF outcome.state = "fulfilled"
    THEN Returns(Result(outcome.value, Null))
    ELSE Returns(Result(Null, outcome.value))

\* mutant: the first attempt is not counted
MaxAttemptsNoFirst(config) == Or(config.maxRetries, Num(0)).num

\* (this.config.maxRetries || 0) + 1
MaxAttempts(config) == Or(config.maxRetries, Num(0)).num + 1

\* the delay before the cap: exponential or linear in the attempt number
RawDelay(config, k) ==
    IF Truthy(config.exponential)
    THEN 2 ^ (k - 1) * config.baseDelayMs.num
    ELSE k * config.baseDelayMs.num

Min(a, b) == IF a <= b THEN a ELSE b

\* this.config.maxDelayMs || 30000
DefaultMaxDelayMs == 30000

DelayCap(config) == Or(config.maxDelayMs, Num(DefaultMaxDelayMs)).num

\* delay = Math.min(delay, cap); if (jitter) delay += Math.random() * 1000
BackoffDelay(config, k, random) ==
    Min(RawDelay(config, k), DelayCap(config))
        + (IF Truthy(config.jitter) THEN random ELSE 0)

\* mutant: the final failure carries the last error in data as well
FinalFailureBothFields(err) ==
    Result(err, Or(err, Err("Operation failed after all retry attempts")))

\* mutant: no fallback error when no error was recorded
FinalFailureNoFallback(err) == Result(Null, err)

\* variant of FinalFailure: the last error is replaced by a generic one
FinalFailureGeneric(err) ==
    Result(Null, Err("Operation failed after all retry attempts"))

\* {data: null, error: error || new Error('Operation failed after ...')}
FinalFailure(err) ==
    Result(Null, Or(err, Err("Operation failed after all retry attempts")))

----------------------------------------------------------------------------
(* The state machine *)

NoRace == [promise |-> 0, timer |-> 0, state |-> "pending",
           value |-> Undefined]

\* setTimeout(() => reject(error), timeoutMs) of attempt k, with the
\* operationPromise.finally(() => clearTimeout(...)) registered on promise p
TimeoutTimer(p, k) ==
    [kind |-> "timeout", state |-> "armed", promise |-> p, attempt |-> k,
     finallyRan |-> FALSE]

\* setTimeout(resolve, ms) of Try.sleep after attempt k
SleepTimer(k) ==
    [kind |-> "sleep", state |-> "armed", promise |-> 0, attempt |-> k,
     finallyRan |-> TRUE]

Init ==
    /\ input = NoInput
    /\ returned = NotCalled
    /\ fnCalls = 0
    /\ promises = <<>>
    /\ operation = Undefined
    /\ handle = EmptyConfig
    /\ recvIntact = TRUE
    /\ given = EmptyConfig
    /\ overrode = FALSE
    /\ pc = "idle"
    /\ attempt = 0
    /\ error = Null
    /\ race = NoRace
    /\ timers = <<>>
    /\ delay = 0
    /\ sleeps = 0
    /\ result = NoResult

\* Try.catch(fn)
TryCatch(inp) ==
    /\ returned.kind = "none"
    /\ input' = inp
    /\ returned' = Catch(inp)
    /\ fnCalls' = Catch(inp).invoked
    /\ operation' = Catch(inp).operation
    /\ handle' = Catch(inp).config
    /\ promises' =
           IF IsThenable(inp.value) \/ inp.fn.does = "returnPromise"
           THEN <<Pending>>
           ELSE <<>>
    /\ UNCHANGED <<recvIntact, given, overrode, execVars>>

\* handle.withTimeout(ms, error)
CallWithTimeout(ms, err) ==
    /\ returned.kind = "handle" /\ pc = "idle"
    /\ handle' = WithTimeout(handle, ms, err)
    /\ recvIntact' = (recvIntact /\ Receiver(handle) = handle)
    /\ given' = [given EXCEPT !.timeoutMs = Num(ms), !.timeoutError = err]
    /\ overrode' = (overrode \/ Replaces(given, given'))
    /\ UNCHANGED <<input, returned, fnCalls, promises, operation, execVars>>

\* handle.withRetry(maxAttempts)
CallWithRetry(n) ==
    /\ returned.kind = "handle" /\ pc = "idle"
    /\ handle' = WithRetry(handle, n)
    /\ recvIntact' = (recvIntact /\ Receiver(handle) = handle)
    /\ given' = [given EXCEPT !.maxRetries = Num(n)]
    /\ overrode' = (overrode \/ Replaces(given, given'))
    /\ UNCHANGED <<input, returned, fnCalls, promises, operation, execVars>>

\* handle.withBackoff(options)
CallWithBackoff(options) ==
    /\ returned.kind = "handle" /\ pc = "idle"
    /\ handle' = WithBackoff(handle, options)
    /\ recvIntact' = (recvIntact /\ Receiver(handle) = handle)
    /\ given' = [given EXCEPT !.baseDelayMs = options.baseDelayMs,
                              !.exponential = options.exponential,
                              !.maxDelayMs = options.maxDelayMs,
                              !.jitter = options.jitter]
    /\ overrode' = (overrode \/ Replaces(given, given'))
    /\ UNCHANGED <<input, returned, fnCalls, promises, operation, execVars>>

\* execute() returns r: the handle resolves
Finish(r, err, tms) ==
    /\ pc' = "done"
    /\ result' = r
    /\ error' = err
    /\ timers' = tms
    /\ UNCHANGED <<attempt, race, delay, sleeps, promises, fnCalls>>

\* variant of BeginRun: the timer is armed whenever timeoutMs is defined
BeginRunTimedIfDefined(k, err, tms) ==
    LET invoke == TypeOf(operation) = "function"
        p == IF invoke THEN Len(promises) + 1 ELSE operation.num
        timed == handle.timeoutMs # Undefined
    IN  /\ promises' = IF invoke THEN Append(promises, Pending) ELSE promises
        /\ fnCalls' = IF invoke THEN fnCalls + 1 ELSE fnCalls
        /\ timers' = IF timed THEN Append(tms, TimeoutTimer(p, k)) ELSE tms
        /\ race' = [promise |-> p,
                    timer |-> IF timed THEN Len(tms) + 1 ELSE 0,
                    state |-> "pending", value |-> Undefined]
        /\ pc' = "await"
        /\ attempt' = k
        /\ error' = err
        /\ UNCHANGED <<delay, sleeps, result>>

\* run() of attempt k up to `await operationPromise`: obtain the promise,
\* arm the timeout timer and race it when timeoutMs is truthy
BeginRun(k, err, tms) ==
    LET invoke == TypeOf(operation) = "function"
        p == IF invoke THEN Len(promises) + 1 ELSE operation.num
        timed == Truthy(handle.timeoutMs)
    IN  /\ promises' = IF invoke THEN Append(promises, Pending) ELSE promises
        /\ fnCalls' = IF invoke THEN fnCalls + 1 ELSE fnCalls
        /\ timers' = IF timed THEN Append(tms, TimeoutTimer(p, k)) ELSE tms
        /\ race' = [promise |-> p,
                    timer |-> IF timed THEN Len(tms) + 1 ELSE 0,
                    state |-> "pending", value |-> Undefined]
        /\ pc' = "await"
        /\ attempt' = k
        /\ error' = err
        /\ UNCHANGED <<delay, sleeps, result>>

\* for (let attempt = 1; attempt <= maxAttempts; attempt++) at attempt = k
Loop(k, err, tms) ==
    IF k <= MaxAttempts(handle)
    THEN BeginRun(k, err, tms)
    ELSE Finish(FinalFailure(err), err, tms)

\* variant of Sleep: Try.sleep(delay) is called without await
SleepNotAwaited(d, err) ==
    Loop(attempt + 1, err, Append(timers, SleepTimer(attempt)))

\* await Try.sleep(delay)
Sleep(d, err) ==
    /\ pc' = "sleep"
    /\ delay' = d
    /\ sleeps' = sleeps + 1
    /\ error' = err
    /\ timers' = Append(timers, SleepTimer(attempt))
    /\ UNCHANGED <<attempt, race, result, promises, fnCalls>>

\* `await this.run()` rejected: execute() has no try, its promise rejects
Reject(e) ==
    /\ pc' = "rejected"
    /\ result' = Result(Null, e)
    /\ UNCHANGED <<attempt, error, race, timers, delay, sleeps, promises,
                   fnCalls>>

\* variant of AfterRun: no early return on success, the loop goes on until
\* the last attempt
AfterRunNoReturn(c) ==
    IF c.throws
    THEN Reject(c.result.error)
    ELSE IF attempt = MaxAttempts(handle)
    THEN Finish(c.result, c.result.error, timers)
    ELSE IF Truthy(handle.baseDelayMs)
    THEN \E random \in JitterSamples :
             Sleep(BackoffDelay(handle, attempt, random), c.result.error)
    ELSE Loop(attempt + 1, c.result.error, timers)

\* the loop body after `const result = await this.run()`
AfterRun(c) ==
    IF c.throws
    THEN Reject(c.result.error)
    ELSE IF ~Truthy(c.result.error)
    THEN Finish(c.result, error, timers)
    ELSE IF attempt = MaxAttempts(handle)
    THEN Finish(FinalFailure(c.result.error), c.result.error, timers)
    ELSE IF Truthy(handle.baseDelayMs)
    THEN \E random \in JitterSamples :
             Sleep(BackoffDelay(handle, attempt, random), c.result.error)
    ELSE Loop(attempt + 1, c.result.error, timers)

\* handle.then(...): execute() up to its first await
Then ==
    /\ returned.kind = "handle" /\ pc = "idle"
    /\ Loop(1, Null, timers)
    /\ UNCHANGED <<input, returned, operation, chainVars>>

\* the environment settles a pending computation
Settle(p, st, v) ==
    /\ p \in DOMAIN promises
    /\ promises[p].state = "pending"
    /\ promises' = [promises EXCEPT ![p] = Settled(st, v)]
    /\ UNCHANGED <<input, returned, fnCalls, operation, chainVars, execVars>>

\* variant of FinallyReaction: the callback does not call clearTimeout
FinallyNoClear(i) ==
    /\ i \in DOMAIN timers
    /\ timers[i].kind = "timeout"
    /\ ~timers[i].finallyRan
    /\ promises[timers[i].promise].state # "pending"
    /\ timers' = [timers EXCEPT ![i].finallyRan = TRUE]
    /\ UNCHANGED <<input, returned, fnCalls, promises, operation, chainVars,
                   pc, attempt, error, race, delay, sleeps, result>>

\* microtask: the finally callback of timer i runs clearTimeout
FinallyReaction(i) ==
    /\ i \in DOMAIN timers
    /\ timers[i].kind = "timeout"
    /\ ~timers[i].finallyRan
    /\ promises[timers[i].promise].state # "pending"
    /\ timers' = [timers EXCEPT
                      ![i].finallyRan = TRUE,
                      ![i].state = IF @ = "armed" THEN "cleared" ELSE @]
    /\ UNCHANGED <<input, returned, fnCalls, promises, operation, chainVars,
                   pc, attempt, error, race, delay, sleeps, result>>

\* the promise operationPromise.finally(...) of timer i returned: once the
\* callback has run it settles as the computation did; the code attaches
\* no handler to it
FinallyPromise(i) ==
    IF timers[i].finallyRan
    THEN promises[timers[i].promise]
    ELSE Pending

\* variant of TimeoutFire: the timer callback does not reject the timeout
\* promise
TimeoutFireNoReject(i) ==
    /\ i \in DOMAIN timers
    /\ timers[i].kind = "timeout"
    /\ timers[i].state = "armed"
    /\ promises[timers[i].promise].state = "pending"
    /\ timers' = [timers EXCEPT ![i].state = "fired"]
    /\ UNCHANGED <<input, returned, fnCalls, promises, operation, chainVars,
                   pc, attempt, error, race, delay, sleeps, result>>

\* macrotask: timeout timer i fires and rejects its timeoutPromise; it
\* cannot run while the finally microtask of a settled promise is queued
TimeoutFire(i) ==
    /\ i \in DOMAIN timers
    /\ timers[i].kind = "timeout"
    /\ timers[i].state = "armed"
    /\ promises[timers[i].promise].state = "pending"
    /\ timers' = [timers EXCEPT ![i].state = "fired"]
    /\ race' = IF race.timer = i /\ race.state = "pending"
               THEN [race EXCEPT !.state = "rejected",
                                 !.value = TimeoutError(handle)]
               ELSE race
    /\ UNCHANGED <<input, returned, fnCalls, promises, operation, chainVars,
                   pc, attempt, error, delay, sleeps, result>>

\* what `await operationPromise` sees: the race once the timer settled it,
\* else the computation itself
Outcome ==
    IF race.state # "pending"
    THEN Settled(race.state, race.value)
    ELSE promises[race.promise]

\* microtask: `await operationPromise` resumes run(), which returns to
\* execute(); the finally reaction, registered first, has run before
AwaitResume ==
    /\ pc = "await"
    /\ Outcome.state # "pending"
    /\ IF race.timer = 0 \/ race.state # "pending"
       THEN TRUE
       ELSE timers[race.timer].finallyRan
    /\ AfterRun(RunResult(Outcome))
    /\ UNCHANGED <<input, returned, operation, chainVars>>

\* macrotask: the Try.sleep timer fires and the loop goes on
SleepFire(i) ==
    /\ pc = "sleep"
    /\ i \in DOMAIN timers
    /\ timers[i].kind = "sleep"
    /\ timers[i].state = "armed"
    /\ Loop(attempt + 1, error, [timers EXCEPT ![i].state = "fired"])
    /\ UNCHANGED <<input, returned, operation, chainVars>>

Next ==
    \/ \E inp \in Inputs : TryCatch(inp)
    \/ \E ms \in TimeoutValues, err \in TimeoutErrors :
           CallWithTimeout(ms, err)
    \/ \E n \in RetryValues : CallWithRetry(n)
    \/ \E options \in BackoffOptions : CallWithBackoff(options)
    \/ Then
    \/ \E p \in 1 .. (MaxRetries + 2), v \in ResolveValues :
           Settle(p, "fulfilled", v)
    \/ \E p \in 1 .. (MaxRetries + 2), v \in RejectValues :
           Settle(p, "rejected", v)
    \/ \E i \in DOMAIN timers : FinallyReaction(i)
    \/ \E i \in DOMAIN timers : TimeoutFire(i)
    \/ AwaitResume
    \/ \E i \in DOMAIN timers : SleepFire(i)

Spec == Init /\ [][Next]_vars

----------------------------------------------------------------------------
(* Properties *)

\* every Result the library has produced so far: the immediate Result of
\* Try.catch and the Result the handle resolved to
Produced ==
    (IF returned.kind = "result" THEN {returned.result} ELSE {})
        \cup (IF pc = "done" THEN {result} ELSE {})

\* the Error of a timeout when no custom error applies
DefaultTimeoutError ==
    Err("Operation timed out after " \o ToString(handle.timeoutMs.num)
        \o "ms")

\* the error a timed-out attempt is documented to fail with
DocumentedTimeoutError ==
    IF handle.timeoutError # Undefined
    THEN handle.timeoutError
    ELSE DefaultTimeoutError

\* C1: consuming a handle never rejects; it resolves to a Result, and a
\* final attempt that timed out or was rejected is the error of that Result
C1_NeverRejects ==
    /\ pc # "rejected"
    /\ pc = "done" => result.data.type # "none" /\ result.error.type # "none"
    /\ (pc = "done" /\ race.state = "rejected") =>
           /\ result.data = Null
           /\ result.error \in {handle.timeoutError, DefaultTimeoutError}
           /\ result.error \notin {Null, Undefined}
    /\ (pc = "done" /\ attempt >= 1 /\ race.state = "pending"
            /\ promises[race.promise].state = "rejected") =>
           result = Result(Null, promises[race.promise].value)

\* C1 witness: the last of three attempts timed out and the handle resolved
C1_Witness == pc = "done" /\ attempt = 3 /\ race.state = "rejected"

\* C2: with withRetry(n), n >= 0, on Try.catch(fn) where the computation of
\* fn always rejects, fn has been invoked n + 1 times when the final
\* failure is returned
C2_FnInvokedPerAttempt ==
    (/\ pc = "done"
     /\ input.value = Func
     /\ handle.maxRetries.type = "number" /\ handle.maxRetries.num >= 0
     /\ \A p \in DOMAIN promises : promises[p].state = "rejected"
     /\ result.data = Null /\ result.error # Null)
        => fnCalls = handle.maxRetries.num + 1

\* C3 as stated: in every Result exactly one of data and error is null
C3_ExactlyOneBranch ==
    \A r \in Produced : (r.data = Null) # (r.error = Null)

\* the value the produced Result r reports: what fn returned or threw, or
\* what the last attempt of the consumption settled with
ReportedIsNull(r) ==
    \/ r = returned.result /\ returned.kind = "result"
           /\ input.fn.does \in {"throw", "return"} /\ input.fn.val = Null
    \/ r = result /\ pc = "done" /\ attempt >= 1
           /\ race.state = "pending" /\ promises[race.promise].value = Null

\* C3 (amended): exactly one of data and error is null, except when the
\* value returned / resolved or thrown / rejected is itself null, and then
\* both are null
C3_OneBranchUnlessNullValue ==
    \A r \in Produced :
        IF r = Result(Null, Null)
        THEN ReportedIsNull(r)
        ELSE (r.data = Null) # (r.error = Null)

\* C3 witness: a computation rejected with null and the handle resolved to
\* a Result with both fields null
C3_Witness ==
    /\ pc = "done"
    /\ result = Result(Null, Null)
    /\ promises[1] = Settled("rejected", Null)

\* C4: in every Result produced, data and error are never both non-null
C4_NeverBothNonNull ==
    \A r \in Produced : ~(r.data # Null /\ r.error # Null)

\* C4 witness: the handle resolved to a failure carrying the rejection
C4_Witness ==
    /\ pc = "done"
    /\ result.error = Err("Testing error")
    /\ returned.kind = "handle"

\* C5: with the default configuration the Result reflects the outcome of
\* the computation: {data: v, error: null} or {data: null, error: e}
C5_DefaultReflectsOutcome ==
    (pc = "done" /\ handle = EmptyConfig) =>
        /\ promises[1].state # "pending"
        /\ promises[1].state = "fulfilled" =>
               result = Result(promises[1].value, Null)
        /\ promises[1].state = "rejected" =>
               result = Result(Null, promises[1].value)

\* C5 witness: an unconfigured handle resolved after a rejection
C5_Witness ==
    /\ pc = "done"
    /\ handle = EmptyConfig
    /\ promises[1] = Settled("rejected", Err("Testing error"))

\* C6: an attempt whose timer fires before the computation settled fails
\* with the custom error if one was supplied, else with the Error
\* "Operation timed out after {ms}ms"; data is null
C6_TimeoutErrorAsSupplied ==
    (pc = "await" /\ race.state = "rejected") =>
        RunResult(Outcome) = Returns(Result(Null, DocumentedTimeoutError))

\* C7: Try.catch never throws; a function that throws e synchronously
\* gives the immediate Result {data: null, error: e}
C7_CatchNeverThrows ==
    /\ returned.kind # "throw"
    /\ (returned.kind # "none" /\ input.fn.does = "throw") =>
           /\ returned.kind = "result"
           /\ returned.result = Result(Null, input.fn.val)

\* C7 witness: Try.catch returned after the function threw an Error
C7_Witness ==
    /\ returned.kind = "result"
    /\ input.fn = [does |-> "throw", val |-> Err("Unexpected token")]

\* C8: Try.catch of a plain value (neither thenable nor function) returns
\* the immediate success Result {data: value, error: null}
C8_PlainValueIsSuccess ==
    (returned.kind # "none" /\ input.value.type \notin {"promise", "function"})
        => /\ returned.kind = "result"
           /\ returned.result = Result(input.value, Null)

\* C9: Try.catch(fn) invokes fn exactly once and classifies by what it
\* returned (a handle wrapping the returned computation, or the immediate
\* Result {data: value, error: null}); Try.catch(p) returns a handle
\* wrapping p with the empty configuration, and invokes nothing
C9_InvokedOnceAndClassified ==
    returned.kind # "none" =>
        /\ input.value.type = "function" =>
               /\ fnCalls = 1
               /\ input.fn.does = "returnPromise" =>
                      /\ returned.kind = "handle"
                      /\ returned.operation = PromiseRef(1)
                      /\ operation = PromiseRef(1)
                      /\ Len(promises) = 1
               /\ input.fn.does = "return" =>
                      /\ returned.kind = "result"
                      /\ returned.result = Result(input.fn.val, Null)
        /\ input.value.type = "promise" =>
               /\ fnCalls = 0
               /\ returned.kind = "handle"
               /\ returned.operation = input.value
               /\ returned.config = EmptyConfig

\* C9 witness: a handle from Try.catch(fn) resolved after a second attempt
C9_Witness ==
    /\ pc = "done"
    /\ input.value = Func
    /\ attempt >= 2

\* C10: without jitter and with baseDelayMs = b >= 1 the delay slept after
\* failed attempt k is min(b * 2^(k-1), maxDelayMs) (exponential) or
\* min(b * k, maxDelayMs) (linear), maxDelayMs being 30000 when unset; no
\* delay exceeds the configured maxDelayMs
C10_DelayFormula ==
    (/\ pc = "sleep"
     /\ ~Truthy(handle.jitter)
     /\ handle.baseDelayMs.num >= 1)
        => LET b == handle.baseDelayMs.num
               k == attempt
               cap == IF handle.maxDelayMs = Undefined
                      THEN 30000
                      ELSE handle.maxDelayMs.num
               raw == IF handle.exponential = Bool(TRUE)
                      THEN b * 2 ^ (k - 1)
                      ELSE b * k
           IN  /\ delay = (IF raw <= cap THEN raw ELSE cap)
               /\ delay <= cap

\* C11: when all attempts have failed, the error of the Result is the error
\* of the last attempt as it was produced (its rejection value or its
\* timeout error), not the error of an earlier attempt and not another one
C11_LastAttemptError ==
    (/\ pc = "done"
     /\ attempt >= 1
     /\ attempt = MaxAttempts(handle)
     /\ Outcome.state = "rejected")
        => /\ result.data = Null
           /\ result.error = Outcome.value
           /\ race.state = "rejected" => result.error = TimeoutError(handle)
           /\ race.state = "pending"
                  => result.error = promises[race.promise].value

\* C11 witness: the first attempt timed out, the last one failed with the
\* rejection value of the computation, and that value is the error
C11_Witness ==
    /\ pc = "done"
    /\ attempt = MaxAttempts(handle)
    /\ attempt >= 2
    /\ Len(timers) >= 1
    /\ timers[1].kind = "timeout"
    /\ timers[1].state = "fired"
    /\ race.state = "pending"
    /\ result.error = Err("Testing error")

\* C12: the attempts of a consumption are sequential: attempt N+1 starts
\* (obtains the computation, arms its timeout timer) only in a step taken
\* when attempt N has produced its result and, when a base delay is
\* configured, in the step in which the delay timer armed after attempt N
\* fires; no timer of an earlier attempt is armed when it starts
C12_Sequential ==
    [][attempt' # attempt
         => /\ attempt' = attempt + 1
            /\ attempt >= 1
                 => /\ Outcome.state # "pending"
                    /\ IF Truthy(handle.baseDelayMs)
                       THEN /\ pc = "sleep"
                            /\ \E i \in DOMAIN timers :
                                   /\ timers[i] = SleepTimer(attempt)
                                   /\ timers'[i].state = "fired"
                       ELSE pc = "await"
            /\ \A i \in DOMAIN timers' :
                   timers'[i].state = "armed"
                       => /\ timers'[i].kind = "timeout"
                          /\ timers'[i].attempt = attempt']_vars

\* C12 witness: a third attempt is under way after two backoff delays
C12_Witness ==
    /\ pc = "await"
    /\ attempt = 3
    /\ sleeps = 2
    /\ Truthy(handle.timeoutMs)
    /\ Truthy(handle.baseDelayMs)

\* C13: when an attempt succeeds, the next step of the consumption resolves
\* the handle with { data: the fulfilment value, error: null }; it starts
\* no attempt and no delay, however many retries remain, and nothing is
\* started after the handle has resolved
C13_SuccessEndsLoop ==
    [][/\ (pc = "await" /\ Outcome.state = "fulfilled" /\ pc' # pc)
           => /\ pc' = "done"
              /\ result' = Result(Outcome.value, Null)
              /\ UNCHANGED <<attempt, sleeps, timers, fnCalls>>
       /\ pc = "done"
           => /\ UNCHANGED <<pc, result, attempt, sleeps, fnCalls>>
              /\ Len(timers') = Len(timers)]_vars

\* C13 witness: the second of four attempts succeeded and the handle
\* resolved with its value, two retries remaining
C13_Witness ==
    /\ pc = "done"
    /\ attempt = 2
    /\ MaxAttempts(handle) = 4
    /\ Truthy(handle.baseDelayMs)
    /\ sleeps = 1
    /\ result = Result(Str("Hello World"), Null)

\* C14: withTimeout, withRetry and withBackoff only configure: a chaining
\* call keeps the computation reference, leaves the configuration of its
\* receiver as it was, and starts no attempt, timer or delay; as long as no
\* handle is consumed nothing has been started
C14_ChainingIsPure ==
    /\ [](pc = "idle"
            => /\ attempt = 0
               /\ sleeps = 0
               /\ timers = <<>>
               /\ race = NoRace
               /\ recvIntact)
    /\ [][(handle' # handle \/ given' # given)
            => /\ operation' = operation
               /\ recvIntact'
               /\ pc' = "idle"
               /\ UNCHANGED <<execVars, promises, fnCalls>>]_vars

\* C14 witness: three chaining calls were made on a handle that wraps an
\* in-flight promise, and the handle was not consumed
C14_Witness ==
    /\ pc = "idle"
    /\ returned.kind = "handle"
    /\ TypeOf(operation) = "object"
    /\ handle.timeoutMs = Num(50)
    /\ handle.maxRetries = Num(2)
    /\ handle.baseDelayMs = Num(1)

\* C15: after any sequence of chaining calls the effective value of every
\* option is the value passed by the last call that set it, a call setting
\* the options of its method (withTimeout: timeoutMs and timeoutError,
\* withRetry: maxRetries, withBackoff: its four keys) and passing undefined
\* for the ones it omits; values of earlier calls for the key are overridden
C15_LastCallWins ==
    \A key \in DOMAIN handle : handle[key] = given[key]

\* C15 witness: a consumed handle on which a chaining call replaced the
\* value an earlier call had given
C15_Witness ==
    /\ overrode
    /\ pc = "done"
    /\ handle.maxRetries = Num(2)
    /\ handle.timeoutMs = Num(50)

\* C16: no promise the library creates or derives from the computation
\* rejects without a rejection handler: the race is awaited inside run()'s
\* try, the timeout promise is handled by the race, so the claim comes down
\* to the promise returned by operationPromise.finally(...), which has no
\* handler and must never reject
C16_NoUnhandledRejection ==
    \A i \in DOMAIN timers :
        timers[i].kind = "timeout" => FinallyPromise(i).state # "rejected"

\* C17: timers never dangle: a timeout timer whose computation has settled
\* while it was armed does not fire, a cancelled timer stays cancelled, and
\* once the consumption has resolved none of its timeout or delay timers is
\* still armed
C17_TimersNeverDangle ==
    /\ [](pc = "done"
            => \A i \in DOMAIN timers : timers[i].state # "armed")
    /\ [][\A i \in DOMAIN timers :
            /\ timers[i].state = "cleared" => timers'[i].state = "cleared"
            /\ (/\ timers[i].kind = "timeout"
                /\ timers[i].state = "armed"
                /\ promises[timers[i].promise].state # "pending")
                   => timers'[i].state # "fired"]_vars

\* C17 witness: a resolved consumption whose first attempt timed out, whose
\* delay timer fired and whose second timeout timer was cancelled because
\* the computation settled first
C17_Witness ==
    /\ pc = "done"
    /\ Len(timers) = 3
    /\ timers[1].kind = "timeout" /\ timers[1].state = "fired"
    /\ timers[2].kind = "sleep" /\ timers[2].state = "fired"
    /\ timers[3].kind = "timeout" /\ timers[3].state = "cleared"

\* the option keys a chaining method writes
Keys(method) ==
    CASE method = "withTimeout" -> {"timeoutMs", "timeoutError"}
      [] method = "withRetry" -> {"maxRetries"}
      [] method = "withBackoff" ->
             {"baseDelayMs", "exponential", "maxDelayMs", "jitter"}

\* the chaining calls: a method and the values passed, undefined if omitted
ChainingCalls ==
    {[method |-> "withTimeout",
      options |-> [EmptyConfig EXCEPT !.timeoutMs = Num(ms),
                                      !.timeoutError = err]] :
         ms \in TimeoutValues, err \in TimeoutErrors}
    \cup {[method |-> "withRetry",
           options |-> [EmptyConfig EXCEPT !.maxRetries = Num(n)]] :
              n \in RetryValues}
    \cup {[method |-> "withBackoff",
           options |-> [EmptyConfig EXCEPT
                            !.baseDelayMs = o.baseDelayMs,
                            !.exponential = o.exponential,
                            !.maxDelayMs = o.maxDelayMs,
                            !.jitter = o.jitter]] :
              o \in BackoffOptions}

\* the step is the chaining call `call`
IsCall(call) ==
    \A key \in DOMAIN given :
        given'[key] = IF key \in Keys(call.method)
                      THEN call.options[key]
                      ELSE given[key]

\* C18 as stated: a chaining call changes only the options it is explicitly
\* given: every key it passes no value for, of another method or of its
\* own, keeps the value of the receiver in the new handle
C18_OnlyGivenOptionsChange ==
    [][(handle' # handle \/ given' # given)
         => \E call \in ChainingCalls :
                /\ IsCall(call)
                /\ \A key \in DOMAIN handle :
                       handle'[key] =
                           IF /\ key \in Keys(call.method)
                              /\ call.options[key] # Undefined
                           THEN call.options[key]
                           ELSE handle[key]]_vars

\* C18 amended: a chaining call writes every key of its method and leaves
\* the keys of the other methods as they are in the receiver: withRetry
\* preserves timeout and backoff options, withTimeout preserves retry and
\* backoff options, withBackoff preserves timeout and retry options; a key
\* of its own method that the call omits becomes undefined
C18_OtherMethodsKeysKept ==
    [][(handle' # handle \/ given' # given)
         => \E call \in ChainingCalls :
                /\ IsCall(call)
                /\ \A key \in DOMAIN handle :
                       handle'[key] =
                           IF key \in Keys(call.method)
                           THEN call.options[key]
                           ELSE handle[key]]_vars

\* C18 witness: a handle with timeout, retry and backoff options on which a
\* later call replaced an earlier value, consumed to a default timeout error
C18_Witness ==
    /\ overrode
    /\ pc = "done"
    /\ handle.timeoutMs = Num(50)
    /\ handle.timeoutError = Undefined
    /\ handle.maxRetries = Num(1)
    /\ handle.baseDelayMs = Num(1)
    /\ result.error = DefaultTimeoutError

\* C19: once an attempt has timed out, the settlement of the computation it
\* abandoned is discarded: when the handle resolves, its Result does not
\* come from the settlement of a computation that an attempt timed out on,
\* with or without retries
C19_AbandonedSettlementDiscarded ==
    (/\ pc = "done"
     /\ attempt >= 1
     /\ \E i \in DOMAIN timers :
            /\ timers[i].kind = "timeout"
            /\ timers[i].state = "fired"
            /\ timers[i].promise = race.promise)
        => /\ race.state = "rejected"
           /\ result = Result(Null, race.value)

\* C20: every consumption runs at least one attempt, whatever maxRetries
\* was passed to withRetry (0 and negative integers included), so the error
\* of a failure is produced by an attempt and never is the generic
\* "Operation failed after all retry attempts" error
C20_AtLeastOneAttempt ==
    pc = "done"
        => /\ MaxAttempts(handle) >= 1
           /\ attempt >= 1
           /\ result.error # Err("Operation failed after all retry attempts")

\* C21: no backoff delay is slept after the final attempt: when a base
\* delay is configured and every attempt of the consumption has failed, the
\* delays slept number maxAttempts - 1 and none is pending; with
\* maxRetries = 0 no delay is slept at all
C21_NoDelayAfterFinalAttempt ==
    (/\ pc = "done"
     /\ attempt >= 1
     /\ Truthy(handle.baseDelayMs)
     /\ Outcome.state = "rejected")
        => /\ sleeps = MaxAttempts(handle) - 1
           /\ \A i \in DOMAIN timers : timers[i].state # "armed"
           /\ ~Truthy(handle.maxRetries) => sleeps = 0 /\ delay = 0

\* C22: with jitter enabled the random component, a value in [0, 1000), is
\* added after the cap: every slept delay d satisfies
\* capped <= d < capped + 1000 with capped = min(unjittered delay,
\* maxDelayMs or 30000), so d exceeds a configured maxDelayMs by less than
\* 1000 ms
C22_JitterAfterCap ==
    (/\ pc = "sleep"
     /\ Truthy(handle.jitter))
        => LET cap == IF handle.maxDelayMs = Undefined
                      THEN 30000
                      ELSE handle.maxDelayMs.num
               unjittered == RawDelay(handle, attempt)
               capped == IF unjittered <= cap THEN unjittered ELSE cap
           IN  /\ capped <= delay
               /\ delay < capped + 1000
               /\ delay < cap + 1000

\* C23: whether an attempt failed depends on its computation having
\* rejected or timed out, not on the value it rejected with: the handle
\* resolves after a failed attempt only if that attempt was the last one,
\* and then with the failure, never as if the attempt had succeeded
C23_FailureIgnoresValue ==
    (/\ pc = "done"
     /\ attempt >= 1
     /\ Outcome.state = "rejected")
        => /\ attempt = MaxAttempts(handle)
           /\ error = Outcome.value

\* the event loop runs every queued microtask (the finally callback, the
\* resumption of an await) and fires every timer that stays armed; the
\* settlement of the computation is up to the environment
Fairness ==
    /\ WF_vars(AwaitResume)
    /\ WF_vars(\E i \in DOMAIN timers : FinallyReaction(i))
    /\ WF_vars(\E i \in DOMAIN timers : TimeoutFire(i))
    /\ WF_vars(\E i \in DOMAIN timers : SleepFire(i))

\* the steps of Next with the custom timeout error left out: run() only
\* rejects with it, which error it is does not change what is enabled
LiveNext ==
    \/ \E inp \in Inputs : TryCatch(inp)
    \/ \E ms \in TimeoutValues : CallWithTimeout(ms, Undefined)
    \/ \E n \in RetryValues : CallWithRetry(n)
    \/ \E options \in BackoffOptions : CallWithBackoff(options)
    \/ Then
    \/ \E p \in 1 .. (MaxRetries + 2), v \in ResolveValues :
           Settle(p, "fulfilled", v)
    \/ \E p \in 1 .. (MaxRetries + 2), v \in RejectValues :
           Settle(p, "rejected", v)
    \/ \E i \in DOMAIN timers : FinallyReaction(i)
    \/ \E i \in DOMAIN timers : TimeoutFire(i)
    \/ AwaitResume
    \/ \E i \in DOMAIN timers : SleepFire(i)

LiveSpec == Init /\ [][LiveNext]_vars /\ Fairness

\* C24: a consumption terminates: once it is under way with a timeout of at
\* least 1 ms configured, or its computation has settled, the handle
\* eventually resolves to a Result, after at most maxRetries + 1 attempts,
\* also when the computation never settles
C24_Terminates ==
    []((/\ pc \in {"await", "sleep"}
        /\ \/ handle.timeoutMs.num >= 1
           \/ promises[race.promise].state # "pending")
           => <>(/\ pc = "done"
                 /\ attempt <= Or(handle.maxRetries, Num(0)).num + 1))

\* C24 witness: the handle resolved after four timed-out attempts and three
\* delays while its computation is still pending
C24_Witness ==
    /\ pc = "done"
    /\ attempt = 4
    /\ sleeps = 3
    /\ handle.maxRetries = Num(3)
    /\ promises[race.promise].state = "pending"

====
